---- MODULE Spec2Model ----
(***************************************************************************)
(* A model of asl-zello-bridge: the AsyncByteStream byte queue             *)
(* (stream.py), the USRP endpoint (usrp.py) and the Zello session          *)
(* controller (zello.py).                                                  *)
(*                                                                         *)
(* The program is single-threaded asyncio: a task runs without             *)
(* interruption from one suspension point (an await that really blocks)    *)
(* to the next.  Every action below is one such run of one task.           *)
(*                                                                         *)
(* Three specifications share the variables:                               *)
(*   SpecQueue  one AsyncByteStream with writer tasks and its one reader;  *)
(*   SpecUsrp   the Zello -> USRP direction: USRPController.run_tx, the    *)
(*              zello_ptt event and the zello_to_usrp stream;              *)
(*   Spec       the USRP -> Zello direction and the Zello session:         *)
(*              ZelloController.run_rx / run_tx / monitor, the server.     *)
(* Time is in milliseconds.  Byte strings are sequences of runs            *)
(* <<id, len>>: len consecutive bytes of the write numbered id.            *)
(***************************************************************************)
EXTENDS Integers, Sequences, FiniteSets, TLC

VARIABLES
    \* ---- SpecQueue: one AsyncByteStream and its reader
    q,              \* the stream: [buf, avail] (_buffer, _data_available)
    q_pc,           \* reader position: "idle", "waiting", "woken"
    q_n,            \* the n of the read(n) call in progress or last returned
    q_ret,          \* what the last completed read returned, NoRead before
    q_waited,       \* the read in progress / last returned had to block
    q_writes,       \* number of write() calls so far
    q_in,           \* every byte written so far, in write order
    q_out,          \* every byte returned by a read so far, in read order
    \* ---- shared by SpecUsrp and Spec
    zello_ptt,      \* the zello_ptt asyncio.Event
    \* ---- SpecUsrp: USRPController egress
    zu,             \* the zello_to_usrp stream (USRPController._stream_in)
    zu_writes,      \* number of PCM writes into zu so far
    transport,      \* USRPController._transport is not None
    tx_seq,         \* USRPController._tx_seq
    utx_pc,         \* USRPController.run_tx position
    udp_out,        \* the datagram handed to sendto by the last step, or NoDatagram
    h_built,        \* seq of the first header ever built, None before
    h_last_seq,     \* seq of the latest datagram that left the socket, None before
    h_prev_seq,     \* seq of the datagram that left before that one, None before
    udp_in,         \* SpecIngress: the datagram received last, and how many so far
    gain_call,      \* SpecGain: one call of apply_gain: [buf, gain, status, out]
    \* ---- Spec: the Zello session and the USRP ingress
    now,            \* the clock, ms
    usrp_ptt,       \* the usrp_ptt asyncio.Event
    uz,             \* the usrp_to_zello stream (ZelloController._stream_in)
    uz_pending,     \* write tasks created by datagram_received, not yet run
    zc,             \* the ZelloController's fields
    ws_closed,      \* the closed flag of the current WebSocket object
    pending,        \* requests sent on this connection and not yet answered
    rx_pc,          \* run_rx position: "sleep", "auth", "loop", "closing";
                    \* "done" once the task has returned
    rx_wake,        \* when run_rx's sleep ends
    is_authorized,  \* run_rx's local is_authorized
    tx_pc,          \* run_tx position: "top", "read", "start_wait"; "dead"
                    \* once the task has ended
    sending,        \* run_tx's local sending
    tx_now,         \* run_tx's local now, while it is used (in "read")
    tx_timer,       \* when start_tx's wait for stream_id times out
    mon_wake,       \* when monitor's sleep ends
    ws_out,         \* the frame written to the WebSocket by the last step, or NoFrame
    h               \* history of the run, read by the properties only

qvars == <<q, q_pc, q_n, q_ret, q_waited, q_writes, q_in, q_out>>
uvars == <<zu, zu_writes, transport, tx_seq, utx_pc, udp_out,
           h_built, h_last_seq, h_prev_seq, udp_in, gain_call>>
zvars == <<now, usrp_ptt, uz, uz_pending, zc, ws_closed, pending,
           rx_pc, rx_wake, is_authorized,
           tx_pc, sending, tx_now, tx_timer,
           mon_wake, ws_out, h>>
vars == <<qvars, zello_ptt, uvars, zvars>>

None == 0 - 1

(***************************************************************************)
(* Bounds of the model.                                                    *)
(***************************************************************************)
MaxWriteLen == 2        \* SpecQueue: a write carries 0..MaxWriteLen bytes
MaxReadLen == 3         \* SpecQueue: read(n) is called with n in 1..MaxReadLen
MaxQueueBytes == 4      \* SpecQueue: bytes buffered at most
MaxQueueWrites == 4     \* SpecQueue: write() calls at most
MaxPcmWrites == 3       \* SpecUsrp: decoded PCM writes at most
MaxTxSeq == 5           \* SpecUsrp: headers built at most

(***************************************************************************)
(* Byte strings as sequences of runs.                                      *)
(***************************************************************************)
RECURSIVE BufLen(_)
BufLen(b) == IF b = <<>> THEN 0 ELSE Head(b)[2] + BufLen(Tail(b))

RECURSIVE Take(_, _)
Take(b, n) ==
    IF n <= 0 \/ b = <<>> THEN <<>>
    ELSE IF Head(b)[2] <= n
         THEN <<Head(b)>> \o Take(Tail(b), n - Head(b)[2])
         ELSE << <<Head(b)[1], n>> >>

RECURSIVE Drop(_, _)
Drop(b, n) ==
    IF b = <<>> THEN <<>>
    ELSE IF n <= 0 THEN b
    ELSE IF Head(b)[2] <= n
         THEN Drop(Tail(b), n - Head(b)[2])
         ELSE << <<Head(b)[1], Head(b)[2] - n>> >> \o Tail(b)

Bytes(id, len) == IF len = 0 THEN <<>> ELSE << <<id, len>> >>

\* The same byte string with adjacent runs of one write joined
RECURSIVE Norm(_)
Norm(b) ==
    IF Len(b) < 2 THEN b
    ELSE IF b[1][1] = b[2][1]
         THEN Norm(<< <<b[1][1], b[1][2] + b[2][2]>> >> \o Tail(Tail(b)))
         ELSE <<b[1]>> \o Norm(Tail(b))

(***************************************************************************)
(* AsyncByteStream (stream.py).  _lock is an asyncio.Lock taken by write   *)
(* and by the body of read's loop; neither awaits while holding it, so     *)
(* under the single-threaded loop it is free at every suspension point     *)
(* and each body runs as one step.                                         *)
(***************************************************************************)
NewStream == [buf |-> <<>>, avail |-> FALSE]

StreamWriteMut(s, data) == [buf |-> data \o s.buf, avail |-> TRUE]

StreamWriteUnsignalled(s, data) == [buf |-> s.buf \o data, avail |-> s.avail]

\* write(): append, set the event
StreamWrite(s, data) == [buf |-> s.buf \o data, avail |-> TRUE]

\* read(): data = self._buffer.read(n)
StreamReadData(s, n) == Take(s.buf, n)

\* read(): the buffer is rebuilt from the remaining bytes; the event is
\* cleared when nothing remains
StreamReadRest(s, n) ==
    LET remaining_data == Drop(s.buf, n)
    IN  [buf |-> remaining_data,
         avail |-> IF BufLen(remaining_data) > 0 THEN s.avail ELSE FALSE]

StreamReturnsMut(data) == TRUE

\* read(): `if data: return data`
StreamReturns(data) == BufLen(data) > 0


(***************************************************************************)
(* SpecQueue: writer tasks and the single reader of one AsyncByteStream.   *)
(***************************************************************************)
NoRead == << <<None, None>> >>

QInit ==
    /\ q = NewStream
    /\ q_pc = "idle"
    /\ q_n = 1
    /\ q_ret = NoRead
    /\ q_waited = FALSE
    /\ q_writes = 0
    /\ q_in = <<>>
    /\ q_out = <<>>

\* One pass of read()'s `while True` body, then either the return or the
\* await of _data_available.wait() (which blocks: the body has just
\* cleared the event whenever it found no data).
QReadBody(n, waited) ==
    LET data == StreamReadData(q, n)
    IN  /\ q' = StreamReadRest(q, n)
        /\ q_n' = n
        /\ IF StreamReturns(data)
           THEN /\ q_ret' = data
                /\ q_out' = q_out \o data
                /\ q_pc' = "idle"
                /\ q_waited' = waited
           ELSE /\ q_ret' = q_ret
                /\ q_out' = q_out
                /\ q_pc' = IF q'.avail THEN "woken" ELSE "waiting"
                /\ q_waited' = TRUE

\* A task runs AsyncByteStream.write(data); Event.set() wakes the reader
\* waiting in _data_available.wait().
QWrite(len) ==
    /\ q_writes < MaxQueueWrites
    /\ BufLen(q.buf) + len <= MaxQueueBytes
    /\ q' = StreamWrite(q, Bytes(q_writes, len))
    /\ q_in' = q_in \o Bytes(q_writes, len)
    /\ q_writes' = q_writes + 1
    /\ q_pc' = IF q_pc = "waiting" /\ q'.avail THEN "woken" ELSE q_pc
    /\ UNCHANGED <<q_n, q_ret, q_waited, q_out, zello_ptt, uvars, zvars>>

\* The reader calls read(n): the first pass of the loop runs at once.
QReadCall(n) ==
    /\ q_pc = "idle"
    /\ QReadBody(n, FALSE)
    /\ UNCHANGED <<q_writes, q_in, zello_ptt, uvars, zvars>>

\* The reader, woken from _data_available.wait(), runs the loop body again.
QReadWake ==
    /\ q_pc = "woken"
    /\ QReadBody(q_n, q_waited)
    /\ UNCHANGED <<q_writes, q_in, zello_ptt, uvars, zvars>>


(***************************************************************************)
(* USRPController (usrp.py): the egress loop run_tx and what feeds it.     *)
(***************************************************************************)
USRP_FRAME_SIZE == 352
USRP_HEADER_SIZE == 32
USRP_VOICE_SIZE == USRP_FRAME_SIZE - USRP_HEADER_SIZE
USRP_GAIN_TX_DB == 0
INT32_MAX == 2147483647

\* Sizes in bytes of the PCM that one decoded Opus packet yields at 8 kHz
\* mono, 16 bit: 10, 20 and 40 ms.
PcmSizes == {160, 320, 640}

NoDatagram == [seq |-> None, ptt |-> None, len |-> None, pcm |-> <<>>]

\* No datagram received yet
NoInput == [n |-> 0, ptt |-> None, len |-> None]

\* apply_gain has not been called
NoGainCall == [buf |-> <<>>, gain |-> [n |-> 1, d |-> 1], status |-> "none",
               out |-> <<>>]

\* db_to_linear(db) != 1, the test that guards apply_gain
GainApplies(db) == db # 0

\* _get_seq(): increment, then return
GetSeqMut(seq) == seq

GetSeq(seq) == seq + 1

\* _tx_encode_state(): 'USRP' and seven big-endian int32
HeaderLen == 4 + 7 * 4

\* the n of self._stream_in.read(n) in run_tx
UsrpReadSizeMut == 2 * USRP_VOICE_SIZE

UsrpReadSize == USRP_VOICE_SIZE

\* _tx_off(): the frame is the header alone
TxOffFrame(seq) ==
    [seq |-> seq, ptt |-> 0, len |-> HeaderLen, pcm |-> <<>>]

TxFrameMut(seq, pcm) ==
    [seq |-> seq, ptt |-> 0, len |-> HeaderLen + BufLen(pcm), pcm |-> pcm]

\* _tx_frame(): frame = header + pcm (apply_gain keeps the length)
TxFrame(seq, pcm) ==
    [seq |-> seq, ptt |-> 1, len |-> HeaderLen + BufLen(pcm), pcm |-> pcm]

\* USRPController.__init__, and no datagram sent or received yet
UsrpNew ==
    /\ zu = NewStream
    /\ zu_writes = 0
    /\ transport = FALSE
    /\ tx_seq = 0
    /\ utx_pc = "top"
    /\ udp_out = NoDatagram
    /\ h_built = None
    /\ h_last_seq = None
    /\ h_prev_seq = None
    /\ udp_in = NoInput

UInit ==
    /\ UsrpNew
    /\ gain_call = NoGainCall

\* _tx_encode_state() then _tx(): the counter moves for every header built;
\* the datagram leaves only when connection_made has set the transport.
\* struct.pack('>i') raises beyond INT32_MAX and the task ends.
UsrpBuildAndTx(frame, next_pc) ==
    /\ tx_seq' = frame.seq
    /\ h_built' = IF h_built = None THEN frame.seq ELSE h_built
    /\ IF frame.seq > INT32_MAX \/ (frame.ptt = 1 /\ GainApplies(USRP_GAIN_TX_DB)
                                     /\ BufLen(frame.pcm) % 2 = 1)
       THEN /\ utx_pc' = "dead"
            /\ UNCHANGED <<udp_out, h_last_seq, h_prev_seq>>
       ELSE /\ utx_pc' = next_pc
            /\ IF transport
               THEN /\ udp_out' = frame
                    /\ h_last_seq' = frame.seq
                    /\ h_prev_seq' = h_last_seq
               ELSE /\ udp_out' = NoDatagram
                    /\ UNCHANGED <<h_last_seq, h_prev_seq>>

\* run_tx: pcm = await self._stream_in.read(USRP_VOICE_SIZE), one pass of
\* the read loop, and _tx_frame(pcm) when it returns.
UsrpReadAndTx ==
    LET pcm == StreamReadData(zu, UsrpReadSize)
    IN  /\ zu' = StreamReadRest(zu, UsrpReadSize)
        /\ IF StreamReturns(pcm)
           THEN /\ tx_seq < MaxTxSeq
                /\ UsrpBuildAndTx(TxFrame(GetSeq(tx_seq), pcm), "top")
           ELSE /\ utx_pc' = IF zu'.avail THEN "data_woken" ELSE "wait_data"
                /\ udp_out' = NoDatagram
                /\ UNCHANGED <<tx_seq, h_built, h_last_seq, h_prev_seq>>

\* run_tx has handed control to the event loop, or has not run yet.  From
\* the return of one wait to the next wait that blocks, the loop awaits
\* only coroutines that do not suspend (an uncontended lock, an event that
\* is set), so no other task runs between a frame and the top of the loop.
UsrpTxSuspended == utx_pc # "top" \/ tx_seq = 0

\* run_tx has run and is at a wait: asyncio.gather starts usrp.run() before
\* the Zello session can have received anything.
UsrpTxYielded == utx_pc # "top"

\* create_datagram_endpoint completes: connection_made(transport)
connection_made ==
    /\ UsrpTxSuspended
    /\ ~transport
    /\ transport' = TRUE
    /\ udp_out' = NoDatagram
    /\ UNCHANGED <<zello_ptt, zu, zu_writes, tx_seq, utx_pc, h_built,
                   h_last_seq, h_prev_seq, udp_in, gain_call, qvars, zvars>>

\* run_tx, top of the loop: a PTT-off frame when zello_ptt is clear, then
\* the wait for zello_ptt; when it is set, straight on to the read.
UsrpTxTop ==
    /\ utx_pc = "top"
    /\ IF ~zello_ptt
       THEN /\ tx_seq < MaxTxSeq
            /\ UsrpBuildAndTx(TxOffFrame(GetSeq(tx_seq)), "wait_ptt")
            /\ UNCHANGED zu
       ELSE UsrpReadAndTx
    /\ UNCHANGED <<zello_ptt, zu_writes, transport, udp_in, gain_call, qvars, zvars>>

\* run_tx resumes from `await self._zello_ptt.wait()`
UsrpTxPttWoken ==
    /\ utx_pc = "ptt_woken"
    /\ UsrpReadAndTx
    /\ UNCHANGED <<zello_ptt, zu_writes, transport, udp_in, gain_call, qvars, zvars>>

\* run_tx resumes inside read() from `await self._data_available.wait()`
UsrpTxDataWoken ==
    /\ utx_pc = "data_woken"
    /\ UsrpReadAndTx
    /\ UNCHANGED <<zello_ptt, zu_writes, transport, udp_in, gain_call, qvars, zvars>>

\* ZelloController.run_rx, on_stream_start: self._zello_ptt.set()
UZelloStreamStart ==
    /\ UsrpTxYielded
    /\ ~zello_ptt
    /\ zello_ptt' = TRUE
    /\ utx_pc' = IF utx_pc = "wait_ptt" THEN "ptt_woken" ELSE utx_pc
    /\ udp_out' = NoDatagram
    /\ UNCHANGED <<zu, zu_writes, transport, tx_seq, h_built, h_last_seq,
                   h_prev_seq, udp_in, gain_call, qvars, zvars>>

\* ZelloController.run_rx, on_stream_stop (and _reset_connection_state):
\* self._zello_ptt.clear()
UZelloStreamStop ==
    /\ UsrpTxYielded
    /\ zello_ptt
    /\ zello_ptt' = FALSE
    /\ udp_out' = NoDatagram
    /\ UNCHANGED <<zu, zu_writes, transport, tx_seq, utx_pc, h_built,
                   h_last_seq, h_prev_seq, udp_in, gain_call, qvars, zvars>>

\* ZelloController.run_rx, binary message: the decoded PCM is written to
\* the stream, whatever zello_ptt is.
UZelloAudio(len) ==
    /\ UsrpTxYielded
    /\ zu_writes < MaxPcmWrites
    /\ zu' = StreamWrite(zu, Bytes(zu_writes, len))
    /\ zu_writes' = zu_writes + 1
    /\ utx_pc' = IF utx_pc = "wait_data" THEN "data_woken" ELSE utx_pc
    /\ udp_out' = NoDatagram
    /\ UNCHANGED <<zello_ptt, transport, tx_seq, h_built, h_last_seq,
                   h_prev_seq, udp_in, gain_call, qvars, zvars>>

(***************************************************************************)
(* ZelloController (zello.py).                                             *)
(*                                                                         *)
(* ws.send_str / ws.send_bytes write the frame to the transport before     *)
(* any suspension and suspend only under TCP back-pressure; they are       *)
(* taken to complete within the step.  auth_lock is therefore acquired     *)
(* and released within the step that runs authenticate() and is free at    *)
(* every suspension point.  Sleeps shorter than the clock's step are       *)
(* plain suspension points.  Binary (audio) messages touch nothing of the  *)
(* session: they are part of SpecUsrp (UZelloAudio), not of Spec.          *)
(*                                                                         *)
(* The server answers a request that is outstanding: with success, or,     *)
(* for a start_stream or stop_stream, with one of the rate-limit errors    *)
(* or, for a start_stream, with 'channel is not ready'.  On its own it     *)
(* sends on_stream_start / on_stream_stop, on_channel_status, 'kicked',    *)
(* any other error, and it may close the WebSocket.                        *)
(*                                                                         *)
(* The clock stops at MaxTime, before a sleep of RECONNECT_SLEEP can       *)
(* end: a behaviour is one connection and what follows its end.            *)
(***************************************************************************)
AUTH_TOKEN_EXPIRY == 3600000
AUTH_TOKEN_EXPIRY_THRESHOLD == 600000
POST_LOGIN_COOLDOWN_SEC == 800
CHANNEL_NOT_READY_BACKOFF_SEC == 500
AUTH_WATCHDOG_SEC == 8000
PTT_DEBOUNCE == 150
READ_TIMEOUT == 1000
READ_SIZE == 640
MIN_PCM == 320
START_TIMEOUT == 2000
WOODPECKER_BACKOFF == 3
EMPTY_MSG_BACKOFF == 1
BACKOFF_CAP == 8
RECONNECT_SLEEP == 5000
MONITOR_SLEEP == 1000
PKT_ID_MASK == 2147483647

\* 'ZELLO_PRIVATE_KEY' in os.environ: the deployment signs its own tokens
ZELLO_PRIVATE_KEY == TRUE

\* Bounds of Spec
MaxTime == 3000         \* the clock stops here
TickStep == 1000        \* the clock advances in steps of this many ms
MaxSeq == 4             \* commands sent at most (ZelloController._seq)
MaxUzBytes == 320       \* bytes in usrp_to_zello, written or about to be
MaxPktId == 2           \* media frames are built while pkt_id is below this
MaxTimeLong == 5000     \* SpecLong, FairLong: the clock stops here
MaxTimeBackoff == 12000 \* SpecBackoff: the clock stops here
BackoffTickStep == 250  \* SpecBackoff: the clock advances in steps of this many ms
MaxTimeAuth == 11000    \* SpecAuth: the clock stops here
MaxSeqAuth == 12        \* SpecAuth: commands are sent while seq is below this
MaxDatagrams == 4       \* SpecIngress: datagrams received at most
MaxGainSamples == 2     \* SpecGain: a buffer holds 0..MaxGainSamples samples
MaxSeqStop == 6         \* SpecStop: commands sent at most
MaxTimeStop == 5000     \* SpecStop: the clock stops here, ms

\* What a logon success may carry: no refresh_token, or one whose exp claim
\* is AUTH_TOKEN_EXPIRY_THRESHOLD ahead.
RefreshChoices == {"none", "near"}

\* The stream_id the server assigns to the start_stream numbered seq
SidFor(seq) == 40 + seq

NoFrame ==
    [cmd |-> "none", seq |-> None, sid |-> None, pkt |-> None, token |-> "none"]

Frame(cmd, seq, sid, pkt) ==
    [cmd |-> cmd, seq |-> seq, sid |-> sid, pkt |-> pkt, token |-> "none"]

\* ZelloController.__init__
ZelloNew ==
    [ws |-> FALSE, stream_id |-> None, seq |-> 0,
     token_expiry |-> None, refresh_token |-> FALSE, logged_in |-> FALSE,
     txing |-> FALSE, pkt_id |-> 0,
     woodpecker_until |-> None, empty_msg_backoff_until |-> None,
     ptt_down_at |-> None, channel_ready |-> FALSE,
     auth_in_progress |-> FALSE, last_login_at |-> None,
     channel_backoff_until |-> None, start_retry_after |-> None,
     auth_started_at |-> None, auth_seq |-> None,
     private_key |-> ZELLO_PRIVATE_KEY]

\* self._ws is None or self._ws.closed
WsDown(z) == ~z.ws \/ ws_closed

\* get_token_free(): the expiry of the token just signed
TokenExpiryAfterSign(z, t) ==
    IF z.private_key THEN t + AUTH_TOKEN_EXPIRY ELSE z.token_expiry

\* authenticate(): the controller after the logon has been sent at time t
authenticate(z, t) ==
    [z EXCEPT !.seq = z.seq + 1,
              !.auth_in_progress = TRUE,
              !.auth_started_at = t,
              !.auth_seq = z.seq,
              !.refresh_token = FALSE,
              !.token_expiry = IF z.refresh_token THEN z.token_expiry
                               ELSE TokenExpiryAfterSign(z, t)]

LogonFrameMut(z) ==
    [Frame("logon", z.seq, None, None) EXCEPT !.token = "auth_token"]

\* authenticate(): the logon it sends
LogonFrame(z) ==
    [Frame("logon", z.seq, None, None) EXCEPT
        !.token = IF z.refresh_token THEN "refresh_token" ELSE "auth_token"]

reset_connection_stateMut(z) == [z EXCEPT !.ws = FALSE]

\* _reset_connection_state(), but for zello_ptt which is cleared beside it
reset_connection_state(z) ==
    [z EXCEPT !.ws = FALSE, !.logged_in = FALSE, !.stream_id = None,
              !.txing = FALSE, !.channel_ready = FALSE,
              !.auth_in_progress = FALSE, !.channel_backoff_until = None,
              !.start_retry_after = None, !.auth_started_at = None,
              !.auth_seq = None]

\* The auth watchdog of run_tx and monitor
AuthWatchdog(z, t) ==
    IF z.auth_in_progress /\ z.auth_started_at # None
       /\ (t - z.auth_started_at) > AUTH_WATCHDOG_SEC
    THEN [z EXCEPT !.auth_in_progress = FALSE, !.auth_started_at = None,
                   !.auth_seq = None]
    ELSE z

\* _end_tx(): does it send stop_stream
EndTxSends(z) == ~WsDown(z) /\ z.stream_id # None

end_txMut(z) == IF EndTxSends(z) THEN [z EXCEPT !.seq = z.seq + 1] ELSE z

\* _end_tx(): the controller afterwards
end_tx(z) ==
    IF EndTxSends(z)
    THEN [z EXCEPT !.seq = z.seq + 1, !.txing = FALSE]
    ELSE [z EXCEPT !.txing = FALSE]

\* _end_tx(): the frame it writes
EndTxFrame(z) ==
    IF EndTxSends(z) THEN Frame("stop_stream", z.seq, z.stream_id, None)
    ELSE NoFrame

\* The request a command frame leaves outstanding at the server
Request(f) == [cmd |-> f.cmd, seq |-> f.seq]

PendingAfter(f) ==
    IF f.cmd \in {"logon", "start_stream", "stop_stream"}
    THEN pending \cup {Request(f)} ELSE pending

\* What has happened so far, for the properties: the stream_ids received;
\* on this connection, whether a success, a success for the auth seq and an
\* on_channel_status online were received, and how often 'Logged in!' was
\* logged; the stream_id and pkt_id of the last media frame sent; the
\* stream_ids for which a stop_stream has been sent; the seq of the last
\* start_stream sent.
HistoryNew ==
    [sids |-> {}, success |-> FALSE, auth_ok |-> FALSE, online |-> FALSE,
     logins |-> 0, last_sid |-> None, last_pkt |-> None, stopped |-> {},
     start_seq |-> None]

\* The history once the frame f has been written to the WebSocket
StopRecorded(hist, f) ==
    IF f.cmd = "stop_stream" THEN [hist EXCEPT !.stopped = @ \cup {f.sid}]
    ELSE hist

ZInit ==
    /\ now = 0
    /\ usrp_ptt = FALSE
    /\ zello_ptt = FALSE
    /\ uz = NewStream
    /\ uz_pending = <<>>
    /\ zc = ZelloNew
    /\ ws_closed = TRUE
    /\ pending = {}
    /\ rx_pc = "sleep"
    /\ rx_wake = 0
    /\ is_authorized = FALSE
    /\ tx_pc = "top"
    /\ sending = FALSE
    /\ tx_now = None
    /\ tx_timer = None
    /\ mon_wake = 0
    /\ ws_out = NoFrame
    /\ h = HistoryNew


(***************************************************************************)
(* run_rx: the connection loop and the message loop.                       *)
(***************************************************************************)
Min(a, b) == IF a < b THEN a ELSE b

\* run_rx's local is_channel_available: set at the top of each connection
\* and never assigned again
is_channel_available == FALSE

AuthFailedMut(authorized, available) == FALSE

\* run_rx: `if (not is_authorized) and (not is_channel_available)`
AuthFailed(authorized, available) == ~authorized /\ ~available

LogsLoggedInMut(z) == TRUE

\* run_rx: `if not self._logged_in: self._logger.info('Logged in!')`
LogsLoggedIn(z) == ~z.logged_in

\* (until - now).seconds, for a window still running
SecondsLeft(until, t) == (until - t) \div 1000

\* run_rx: the backoff, in seconds, on 'woodpecker prohibited' (base 3) and
\* on 'empty message' (base 1)
Backoff(until, base, t) ==
    IF until # None /\ t < until
    THEN Min(BACKOFF_CAP, SecondsLeft(until, t) * 2)
    ELSE base

\* run_rx leaves the message loop: the `async with` closes the WebSocket
RxBreak(z1, auth1, h1) ==
    /\ zc' = z1
    /\ is_authorized' = auth1
    /\ h' = h1
    /\ rx_pc' = "closing"
    /\ ws_closed' = TRUE
    /\ pending' = {}

\* run_rx, end of a text message that was neither an error nor skipped
RxFinish(z1, auth1, h1, pend1) ==
    IF AuthFailed(auth1, is_channel_available)
    THEN RxBreak(z1, auth1, h1)
    ELSE /\ zc' = [z1 EXCEPT !.logged_in = TRUE]
         /\ is_authorized' = auth1
         /\ h' = [h1 EXCEPT !.logins = IF LogsLoggedIn(z1) THEN @ + 1 ELSE @]
         /\ rx_pc' = "loop"
         /\ pending' = pend1
         /\ UNCHANGED ws_closed

RxReceiving == rx_pc = "loop" /\ ~ws_closed

ShutdownMut == TRUE

\* self._shutdown: set by shutdown() only, which run() calls when a task
\* has raised; the three tasks catch what they raise
Shutdown == FALSE

\* run_rx after a connection or an attempt: `if not self._shutdown: await
\* asyncio.sleep(5)` and round the `while not self._shutdown` loop
RxAfterConnection == IF Shutdown THEN "done" ELSE "sleep"

\* run_rx: after the sleep, ws_connect succeeds and authenticate() sends
\* the logon under auth_lock.  wait_for() runs authenticate() in a task of
\* its own (before Python 3.12), so run_rx is resumed, and assigns
\* self._ws, only after the other tasks have had their turn.
RxConnect ==
    /\ rx_pc = "sleep"
    /\ now >= rx_wake
    /\ zc.seq < MaxSeq
    /\ zc' = authenticate(zc, now)
    /\ ws_out' = LogonFrame(zc)
    /\ pending' = {Request(LogonFrame(zc))}
    /\ ws_closed' = FALSE
    /\ is_authorized' = FALSE
    /\ rx_pc' = "auth"
    /\ h' = [h EXCEPT !.success = FALSE, !.auth_ok = FALSE, !.online = FALSE,
                     !.logins = 0]
    /\ UNCHANGED <<now, usrp_ptt, zello_ptt, uz, uz_pending, rx_wake,
                   tx_pc, sending, tx_now, tx_timer, mon_wake,
                   qvars, uvars>>

\* run_rx: wait_for(authenticate(ws), 10) has returned: self._ws = ws, and
\* into the message loop
RxAttach ==
    /\ rx_pc = "auth"
    /\ zc' = [zc EXCEPT !.ws = TRUE]
    /\ rx_pc' = "loop"
    /\ ws_out' = NoFrame
    /\ UNCHANGED <<now, usrp_ptt, zello_ptt, uz, uz_pending, ws_closed, pending,
                   rx_wake, is_authorized, tx_pc, sending, tx_now, tx_timer,
                   mon_wake, h, qvars, uvars>>

\* run_rx: wait_for(authenticate(ws), 10) raises (the send fails or times
\* out): the `async with` closes the WebSocket
RxAuthFails ==
    /\ rx_pc = "auth"
    /\ rx_pc' = "closing"
    /\ ws_closed' = TRUE
    /\ pending' = {}
    /\ ws_out' = NoFrame
    /\ UNCHANGED <<now, usrp_ptt, zello_ptt, uz, uz_pending, zc,
                   rx_wake, is_authorized, tx_pc, sending, tx_now, tx_timer,
                   mon_wake, h, qvars, uvars>>

\* run_rx: ws_connect raises; finally: _reset_connection_state(); sleep(5)
RxConnectFail ==
    /\ rx_pc = "sleep"
    /\ now >= rx_wake
    /\ zc' = reset_connection_state(zc)
    /\ zello_ptt' = FALSE
    /\ rx_pc' = RxAfterConnection
    /\ rx_wake' = now + RECONNECT_SLEEP
    /\ ws_out' = NoFrame
    /\ UNCHANGED <<now, usrp_ptt, uz, uz_pending, ws_closed, pending,
                   is_authorized, tx_pc, sending, tx_now, tx_timer,
                   mon_wake, h, qvars, uvars>>

\* The success branch of run_rx for a message with this seq, stream_id
\* (None when absent) and refresh token
OnSuccess(z, seq, sid, refresh) ==
    LET z1 == IF z.auth_seq # None /\ seq = z.auth_seq
              THEN [z EXCEPT !.auth_in_progress = FALSE,
                             !.auth_started_at = None, !.auth_seq = None,
                             !.last_login_at = now, !.start_retry_after = None]
              ELSE z
        z2 == IF sid # None THEN [z1 EXCEPT !.stream_id = sid] ELSE z1
    IN  IF refresh = "none" THEN z2
        ELSE [z2 EXCEPT !.refresh_token = TRUE,
                        !.auth_in_progress = FALSE,
                        !.auth_started_at = None, !.auth_seq = None,
                        !.last_login_at = now, !.start_retry_after = None,
                        !.token_expiry =
                            now + AUTH_TOKEN_EXPIRY_THRESHOLD]

\* run_rx receives {success: true, seq, stream_id?, refresh_token?}: the
\* server's answer to an outstanding request
RxSuccess(r, refresh) ==
    /\ RxReceiving
    /\ r \in pending
    /\ refresh # "none" => r.cmd = "logon"
    /\ LET sid == IF r.cmd = "start_stream" THEN SidFor(r.seq) ELSE None
           h1 == [h EXCEPT !.success = TRUE,
                           !.auth_ok = @ \/ (zc.auth_seq # None /\ r.seq = zc.auth_seq),
                           !.sids = IF sid # None THEN @ \cup {sid} ELSE @]
       IN  RxFinish(OnSuccess(zc, r.seq, sid, refresh), TRUE, h1,
                    pending \ {r})
    /\ ws_out' = NoFrame
    /\ UNCHANGED <<now, usrp_ptt, zello_ptt, uz, uz_pending, rx_wake,
                   tx_pc, sending, tx_now, tx_timer, mon_wake,
                   qvars, uvars>>

\* run_rx receives {error: 'woodpecker prohibited'} or {error: 'empty
\* message'} in answer to a start_stream or stop_stream: the backoff
\* window, then _end_tx() when transmitting; `continue`
RxRateLimitedUpTo(maxseq, r, err) ==
    /\ RxReceiving
    /\ r \in pending /\ r.cmd # "logon"
    /\ LET z1 == IF err = "woodpecker prohibited"
                 THEN [zc EXCEPT !.woodpecker_until = now + 1000 *
                          Backoff(zc.woodpecker_until, WOODPECKER_BACKOFF, now)]
                 ELSE [zc EXCEPT !.empty_msg_backoff_until = now + 1000 *
                          Backoff(zc.empty_msg_backoff_until, EMPTY_MSG_BACKOFF, now)]
       IN  IF z1.txing
           THEN /\ EndTxSends(z1) => z1.seq < maxseq
                /\ zc' = end_tx(z1)
                /\ ws_out' = EndTxFrame(z1)
                /\ pending' = (pending \ {r}) \cup
                              (IF EndTxSends(z1) THEN {Request(EndTxFrame(z1))} ELSE {})
           ELSE /\ zc' = z1
                /\ ws_out' = NoFrame
                /\ pending' = pending \ {r}
    /\ h' = StopRecorded(h, ws_out')
    /\ UNCHANGED <<now, usrp_ptt, zello_ptt, uz, uz_pending, ws_closed, rx_pc,
                   rx_wake, is_authorized, tx_pc, sending, tx_now, tx_timer,
                   mon_wake, qvars, uvars>>

RxRateLimited(r, err) == RxRateLimitedUpTo(MaxSeq, r, err)

\* run_rx receives {error: 'channel is not ready'} in answer to a
\* start_stream; `continue`
RxChannelNotReady(r) ==
    /\ RxReceiving
    /\ r \in pending /\ r.cmd = "start_stream"
    /\ zc' = [zc EXCEPT !.channel_ready = FALSE,
                        !.channel_backoff_until = now + CHANNEL_NOT_READY_BACKOFF_SEC,
                        !.start_retry_after = now + CHANNEL_NOT_READY_BACKOFF_SEC]
    /\ pending' = pending \ {r}
    /\ ws_out' = NoFrame
    /\ UNCHANGED <<now, usrp_ptt, zello_ptt, uz, uz_pending, ws_closed, rx_pc,
                   rx_wake, is_authorized, tx_pc, sending, tx_now, tx_timer,
                   mon_wake, h, qvars, uvars>>

\* run_rx receives {error: 'kicked'}: _reset_connection_state(); break
RxKicked ==
    /\ RxReceiving
    /\ RxBreak(reset_connection_state(zc), is_authorized, h)
    /\ zello_ptt' = FALSE
    /\ ws_out' = NoFrame
    /\ UNCHANGED <<now, usrp_ptt, uz, uz_pending, rx_wake,
                   tx_pc, sending, tx_now, tx_timer, mon_wake,
                   qvars, uvars>>

\* run_rx receives any other error (a refused logon among them), or the
\* WebSocket is closed by the peer: the message loop ends
RxErrorOrClose ==
    /\ RxReceiving
    /\ RxBreak(zc, is_authorized, h)
    /\ ws_out' = NoFrame
    /\ UNCHANGED <<now, usrp_ptt, zello_ptt, uz, uz_pending, rx_wake,
                   tx_pc, sending, tx_now, tx_timer, mon_wake,
                   qvars, uvars>>

\* run_rx receives on_stream_start (set zello_ptt) or on_stream_stop (clear)
RxStreamStartStop(start) ==
    /\ RxReceiving
    /\ zello_ptt' = start
    /\ zello_ptt # start
    /\ RxFinish(zc, is_authorized, h, pending)
    /\ ws_out' = NoFrame
    /\ UNCHANGED <<now, usrp_ptt, uz, uz_pending, rx_wake,
                   tx_pc, sending, tx_now, tx_timer, mon_wake,
                   qvars, uvars>>

\* run_rx receives on_channel_status
RxChannelStatus(online) ==
    /\ RxReceiving
    /\ zc.channel_ready # online
    /\ RxFinish([zc EXCEPT !.channel_ready = online], is_authorized,
                [h EXCEPT !.online = @ \/ online], pending)
    /\ ws_out' = NoFrame
    /\ UNCHANGED <<now, usrp_ptt, zello_ptt, uz, uz_pending, rx_wake,
                   tx_pc, sending, tx_now, tx_timer, mon_wake,
                   qvars, uvars>>

\* run_rx: the WebSocket context has closed; finally:
\* _reset_connection_state(); then sleep(5)
RxCleanup ==
    /\ rx_pc = "closing"
    /\ zc' = reset_connection_state(zc)
    /\ zello_ptt' = FALSE
    /\ rx_pc' = RxAfterConnection
    /\ rx_wake' = now + RECONNECT_SLEEP
    /\ ws_out' = NoFrame
    /\ UNCHANGED <<now, usrp_ptt, uz, uz_pending, ws_closed, pending,
                   is_authorized, tx_pc, sending, tx_now, tx_timer,
                   mon_wake, h, qvars, uvars>>


(***************************************************************************)
(* run_tx and start_tx.                                                    *)
(***************************************************************************)
RxInProgressMut == FALSE

\* run_tx: `if self._zello_ptt.is_set()` after the read: skip the PCM
RxInProgress == zello_ptt

StreamIdKnownMut(sid) == TRUE

\* `self._stream_id is not None`, the test of start_tx()'s wait and of
\* run_tx before a frame is built
StreamIdKnown(sid) == sid # None

NextPktIdMut(pkt) == pkt

\* run_tx: (self._pkt_id + 1) & 0x7FFFFFFF
NextPktId(pkt) == IF pkt = PKT_ID_MASK THEN 0 ELSE pkt + 1

\* A backoff or retry window `until` is running at time t
Running(until, t) == until # None /\ t < until

InCooldownMut(z, t) == FALSE

\* The post-login cooldown is running at time t
InCooldown(z, t) ==
    z.last_login_at # None /\ (t - z.last_login_at) < POST_LOGIN_COOLDOWN_SEC

\* run_tx after the read: the tests that skip the PCM just read (`now` is
\* the time sampled at the top of the iteration)
TxSkips(z, pcm, t) ==
    \/ BufLen(pcm) < MIN_PCM
    \/ RxInProgress
    \/ ~z.logged_in
    \/ z.auth_in_progress
    \/ ~z.channel_ready
    \/ InCooldown(z, t)
    \/ Running(z.start_retry_after, t)

\* start_tx(): the tests that return before anything is sent
StartTxReturns(z, t) ==
    \/ WsDown(z)
    \/ z.auth_in_progress
    \/ ~z.channel_ready
    \/ InCooldown(z, t)
    \/ Running(z.start_retry_after, t)

\* run_tx from `opus = encoder.encode(pcm)` to the end of the iteration
TxEncodeAndSend(z) ==
    IF StreamIdKnown(z.stream_id)
    THEN /\ z.pkt_id < MaxPktId
         /\ zc' = [z EXCEPT !.pkt_id = NextPktId(z.pkt_id)]
         /\ sending' = TRUE
         /\ IF ~WsDown(z)
            THEN /\ ws_out' = Frame("media", None, z.stream_id, z.pkt_id)
                 /\ h' = [h EXCEPT !.last_sid = z.stream_id,
                                    !.last_pkt = z.pkt_id]
            ELSE /\ ws_out' = NoFrame
                 /\ h' = h
    ELSE /\ zc' = end_tx(z)
         /\ sending' = FALSE
         /\ ws_out' = EndTxFrame(z)
         /\ h' = h

\* run_tx, from the sleep at the top of the loop to the next await
TxTopUpTo(maxseq) ==
    /\ tx_pc = "top"
    /\ LET z1 == AuthWatchdog(zc, now)
       IN  IF \/ WsDown(z1)
              \/ Running(z1.woodpecker_until, now)
              \/ Running(z1.empty_msg_backoff_until, now)
           THEN /\ zc' = z1
                /\ ws_out' = NoFrame
                /\ UNCHANGED <<tx_pc, sending, tx_now, pending>>
           ELSE IF ~usrp_ptt
           THEN LET z2 == [z1 EXCEPT !.ptt_down_at = None]
                IN  /\ sending /\ EndTxSends(z2) => z2.seq < maxseq
                    /\ zc' = IF sending THEN end_tx(z2) ELSE z2
                    /\ ws_out' = IF sending THEN EndTxFrame(z2) ELSE NoFrame
                    /\ pending' = IF sending THEN PendingAfter(EndTxFrame(z2))
                                  ELSE pending
                    /\ sending' = FALSE
                    /\ UNCHANGED <<tx_pc, tx_now>>
           ELSE LET down == IF z1.ptt_down_at = None THEN now ELSE z1.ptt_down_at
                IN  /\ zc' = [z1 EXCEPT !.ptt_down_at = down]
                    /\ ws_out' = NoFrame
                    /\ IF (now - down) < PTT_DEBOUNCE
                       THEN UNCHANGED <<tx_pc, tx_now>>
                       ELSE tx_pc' = "read" /\ tx_now' = now
                    /\ UNCHANGED <<sending, pending>>
    /\ h' = StopRecorded(h, ws_out')
    /\ UNCHANGED <<now, usrp_ptt, zello_ptt, uz, uz_pending, ws_closed, rx_pc,
                   rx_wake, is_authorized, tx_timer, mon_wake,
                   qvars, uvars>>

TxTop == TxTopUpTo(MaxSeq)

\* run_tx: read(640) returns; the skips; start_tx() up to its wait for the
\* stream_id when nothing is being sent yet, else the media frame
TxReadUpTo(maxseq) ==
    /\ tx_pc = "read"
    /\ LET pcm == StreamReadData(uz, READ_SIZE)
       IN  /\ StreamReturns(pcm)
           /\ uz' = StreamReadRest(uz, READ_SIZE)
           /\ IF TxSkips(zc, pcm, tx_now)
              THEN /\ tx_pc' = "top"
                   /\ ws_out' = NoFrame
                   /\ UNCHANGED <<zc, sending, tx_timer, pending, h>>
              ELSE IF ~sending
              THEN IF StartTxReturns(zc, now)
                   THEN IF ~zc.txing \/ ~StreamIdKnown(zc.stream_id)
                        THEN /\ tx_pc' = "top"
                             /\ ws_out' = NoFrame
                             /\ UNCHANGED <<zc, sending, tx_timer, pending, h>>
                        ELSE /\ tx_pc' = "top"
                             /\ TxEncodeAndSend(zc)
                             /\ UNCHANGED <<tx_timer, pending>>
                   ELSE /\ zc.seq < maxseq
                        /\ zc' = [zc EXCEPT !.stream_id = None, !.seq = zc.seq + 1]
                        /\ ws_out' = Frame("start_stream", zc.seq, None, None)
                        /\ pending' = pending \cup {[cmd |-> "start_stream", seq |-> zc.seq]}
                        /\ tx_pc' = "start_wait"
                        /\ tx_timer' = now + START_TIMEOUT
                        /\ h' = [h EXCEPT !.start_seq = zc.seq]
                        /\ UNCHANGED sending
              ELSE /\ tx_pc' = "top"
                   /\ TxEncodeAndSend(zc)
                   /\ pending' = PendingAfter(ws_out')
                   /\ UNCHANGED tx_timer
    /\ tx_now' = None
    /\ UNCHANGED <<now, usrp_ptt, zello_ptt, uz_pending, ws_closed, rx_pc,
                   rx_wake, is_authorized, mon_wake,
                   qvars, uvars>>

TxRead == TxReadUpTo(MaxSeq)

\* run_tx: wait_for(read(640), timeout=1) times out
TxReadTimeoutUpTo(maxseq) ==
    /\ tx_pc = "read"
    /\ now >= tx_now + READ_TIMEOUT
    /\ ~StreamReturns(StreamReadData(uz, READ_SIZE))
    /\ sending /\ EndTxSends(zc) => zc.seq < maxseq
    /\ zc' = IF sending THEN end_tx(zc) ELSE zc
    /\ ws_out' = IF sending THEN EndTxFrame(zc) ELSE NoFrame
    /\ pending' = IF sending THEN PendingAfter(EndTxFrame(zc)) ELSE pending
    /\ sending' = FALSE
    /\ tx_pc' = "top"
    /\ tx_now' = None
    /\ h' = StopRecorded(h, ws_out')
    /\ UNCHANGED <<now, usrp_ptt, zello_ptt, uz, uz_pending, ws_closed, rx_pc,
                   rx_wake, is_authorized, tx_timer, mon_wake,
                   qvars, uvars>>

TxReadTimeout == TxReadTimeoutUpTo(MaxSeq)

\* start_tx(): the stream_id has arrived within the timeout; txing, pkt_id
\* 0; back in run_tx, the first media frame
TxStartOk ==
    /\ tx_pc = "start_wait"
    /\ StreamIdKnown(zc.stream_id)
    /\ TxEncodeAndSend([zc EXCEPT !.txing = TRUE, !.pkt_id = 0,
                                  !.start_retry_after = None])
    /\ tx_pc' = "top"
    /\ tx_timer' = None
    /\ UNCHANGED <<now, usrp_ptt, zello_ptt, uz, uz_pending, ws_closed, pending,
                   rx_pc, rx_wake, is_authorized, tx_now,
                   mon_wake, qvars, uvars>>

\* run_tx: encoder.encode(pcm) raises.  The try of line 458 catches
\* asyncio.TimeoutError only, so the exception leaves the while loop for
\* the `except Exception` of line 586, which logs it: the task ends.
TxEncodeFails ==
    /\ \/ /\ tx_pc = "read"
          /\ LET pcm == StreamReadData(uz, READ_SIZE)
             IN  /\ StreamReturns(pcm)
                 /\ ~TxSkips(zc, pcm, tx_now)
                 /\ \/ sending
                    \/ /\ StartTxReturns(zc, now)
                       /\ zc.txing /\ StreamIdKnown(zc.stream_id)
          /\ uz' = StreamReadRest(uz, READ_SIZE)
          /\ UNCHANGED zc
       \/ /\ tx_pc = "start_wait"
          /\ StreamIdKnown(zc.stream_id)
          /\ zc' = [zc EXCEPT !.txing = TRUE, !.pkt_id = 0,
                              !.start_retry_after = None]
          /\ UNCHANGED uz
    /\ tx_pc' = "dead"
    /\ tx_now' = None
    /\ tx_timer' = None
    /\ ws_out' = NoFrame
    /\ UNCHANGED <<now, usrp_ptt, zello_ptt, uz_pending, ws_closed, pending,
                   rx_pc, rx_wake, is_authorized, sending, mon_wake,
                   h, qvars, uvars>>

\* start_tx(): no stream_id within the timeout: start_retry_after; back in
\* run_tx, `continue`
TxStartTimeout ==
    /\ tx_pc = "start_wait"
    /\ ~StreamIdKnown(zc.stream_id)
    /\ now >= tx_timer
    /\ zc' = [zc EXCEPT !.start_retry_after = now + CHANNEL_NOT_READY_BACKOFF_SEC]
    /\ tx_pc' = "top"
    /\ tx_timer' = None
    /\ ws_out' = NoFrame
    /\ UNCHANGED <<now, usrp_ptt, zello_ptt, uz, uz_pending, ws_closed, pending,
                   rx_pc, rx_wake, is_authorized, sending, tx_now,
                   mon_wake, h, qvars, uvars>>


(***************************************************************************)
(* monitor.  _token_expiry is None only before the first authenticate(),   *)
(* when _ws is None too, so the sleep of line 259 is never taken with a    *)
(* WebSocket in place.                                                     *)
(***************************************************************************)
TokenExpiringMut(z, t) ==
    /\ z.token_expiry # None
    /\ (z.token_expiry - t) <= AUTH_TOKEN_EXPIRY_THRESHOLD

\* monitor: `time_until_expiry.total_seconds() <= AUTH_TOKEN_EXPIRY_THRESHOLD
\* and not self._txing`
TokenExpiring(z, t) ==
    /\ z.token_expiry # None
    /\ (z.token_expiry - t) <= AUTH_TOKEN_EXPIRY_THRESHOLD
    /\ ~z.txing

\* monitor: one iteration, from a wake-up to the next sleep(1), while
\* fewer than maxseq commands have been sent
monitorUpTo(maxseq) ==
    /\ now >= mon_wake
    /\ mon_wake' = now + MONITOR_SLEEP
    /\ IF ~zc.ws
       THEN /\ ws_out' = NoFrame
            /\ UNCHANGED <<zc, pending>>
       ELSE LET z1 == AuthWatchdog(zc, now)
            IN  IF TokenExpiring(z1, now) /\ ~WsDown(z1)
                THEN /\ z1.seq < maxseq
                     /\ zc' = authenticate(z1, now)
                     /\ ws_out' = LogonFrame(z1)
                     /\ pending' = PendingAfter(LogonFrame(z1))
                ELSE /\ zc' = z1
                     /\ ws_out' = NoFrame
                     /\ UNCHANGED pending
    /\ UNCHANGED <<now, usrp_ptt, zello_ptt, uz, uz_pending, ws_closed, rx_pc,
                   rx_wake, is_authorized, tx_pc, sending, tx_now, tx_timer,
                   h, qvars, uvars>>

monitor == monitorUpTo(MaxSeq)

(***************************************************************************)
(* USRP ingress (usrp.py): datagrams from the radio side.  USRP_GAIN_RX_DB *)
(* is 0, so the payload is written as received.                            *)
(***************************************************************************)
\* Payload sizes of the keyed datagrams received
VoiceSizes == {USRP_VOICE_SIZE}

\* Bytes written or about to be written to usrp_to_zello
RECURSIVE SumLen(_)
SumLen(s) == IF s = <<>> THEN 0 ELSE BufLen(Head(s)) + SumLen(Tail(s))

FramePttStateMut(ptt) == ptt # 0

\* _frame_ptt_state(): state[2] == 1
FramePttState(ptt) == ptt = 1

\* datagram_received() for a datagram of len bytes whose ptt field is ptt
\* and whose payload is the bytes `id`.  struct.unpack raises on a header
\* shorter than USRP_HEADER_SIZE and the callback ends there; a frame that
\* is not keyed clears usrp_ptt; a keyed one sets it and leaves the write
\* of data[USRP_HEADER_SIZE:] to a task of its own.
DatagramEffect(ptt, len, id) ==
    IF len < USRP_HEADER_SIZE
    THEN UNCHANGED <<usrp_ptt, uz_pending>>
    ELSE IF ~FramePttState(ptt)
    THEN /\ usrp_ptt' = FALSE
         /\ UNCHANGED uz_pending
    ELSE /\ usrp_ptt' = TRUE
         /\ uz_pending' = Append(uz_pending, Bytes(id, len - USRP_HEADER_SIZE))

\* datagram_received(): a frame whose ptt field is not 1
datagram_received_unkey ==
    /\ usrp_ptt
    /\ DatagramEffect(0, USRP_HEADER_SIZE, 0)
    /\ ws_out' = NoFrame
    /\ UNCHANGED <<now, zello_ptt, uz, zc, ws_closed, pending,
                   rx_pc, rx_wake, is_authorized, tx_pc, sending, tx_now,
                   tx_timer, mon_wake, h, qvars, uvars>>

\* datagram_received(): a frame with ptt = 1 and len bytes of PCM; the
\* write is left to a task of its own
datagram_received(len) ==
    /\ BufLen(uz.buf) + SumLen(uz_pending) + len <= MaxUzBytes
    /\ DatagramEffect(1, USRP_HEADER_SIZE + len, 0)
    /\ ws_out' = NoFrame
    /\ UNCHANGED <<now, zello_ptt, uz, zc, ws_closed, pending,
                   rx_pc, rx_wake, is_authorized, tx_pc, sending, tx_now,
                   tx_timer, mon_wake, h, qvars, uvars>>

\* The Zello session cannot transmit: run_tx goes back to sleep at the top
\* of its loop without reading usrp_to_zello
CannotTransmit ==
    \/ WsDown(zc)
    \/ Running(zc.woodpecker_until, now)
    \/ Running(zc.empty_msg_backoff_until, now)

\* datagram_received(): a keyed frame received while the session cannot
\* transmit; its PCM is marked as bytes of write 1
datagram_received_late(len) ==
    /\ CannotTransmit
    /\ BufLen(uz.buf) + SumLen(uz_pending) + len <= MaxUzBytes
    /\ DatagramEffect(1, USRP_HEADER_SIZE + len, 1)
    /\ ws_out' = NoFrame
    /\ UNCHANGED <<now, zello_ptt, uz, zc, ws_closed, pending,
                   rx_pc, rx_wake, is_authorized, tx_pc, sending, tx_now,
                   tx_timer, mon_wake, h, qvars, uvars>>

\* The task created by datagram_received(): stream_out.write(frame)
UsrpWriteTask ==
    /\ uz_pending # <<>>
    /\ uz' = StreamWrite(uz, Head(uz_pending))
    /\ uz_pending' = Tail(uz_pending)
    /\ ws_out' = NoFrame
    /\ UNCHANGED <<now, usrp_ptt, zello_ptt, zc, ws_closed, pending,
                   rx_pc, rx_wake, is_authorized, tx_pc, sending, tx_now,
                   tx_timer, mon_wake, h, qvars, uvars>>

\* The TX task has something to do now: data to read or a read timeout, a
\* stream_id to pick up or a start timeout
TxDue ==
    \/ /\ tx_pc = "read"
       /\ StreamReturns(StreamReadData(uz, READ_SIZE)) \/ now >= tx_now + READ_TIMEOUT
    \/ /\ tx_pc = "start_wait"
       /\ StreamIdKnown(zc.stream_id) \/ now >= tx_timer

\* Time passes, once the tasks that are due have run: the event loop is
\* never a whole step of the clock late.  The connection attempt alone
\* takes as long as the network makes it.
TickTo(limit) ==
    /\ now < limit
    /\ rx_pc \notin {"auth", "closing"}
    /\ uz_pending = <<>>
    /\ now < mon_wake
    /\ ~TxDue
    /\ now' = now + TickStep
    /\ ws_out' = NoFrame
    /\ UNCHANGED <<usrp_ptt, zello_ptt, uz, uz_pending, zc, ws_closed, pending,
                   rx_pc, rx_wake, is_authorized, tx_pc, sending, tx_now,
                   tx_timer, mon_wake, h, qvars, uvars>>

Tick == TickTo(MaxTime)

\* The same clock, running on to MaxTimeLong
TickLong == TickTo(MaxTimeLong)


(***************************************************************************)
(* Specifications.                                                         *)
(***************************************************************************)
QNext ==
    \/ \E len \in 0..MaxWriteLen : QWrite(len)
    \/ \E n \in 1..MaxReadLen : QReadCall(n)
    \/ QReadWake

InitQueue == QInit /\ UInit /\ ZInit

SpecQueue == InitQueue /\ [][QNext]_vars

\* The same with the event loop running the reader once it has been woken
InitQueueFair == QInit /\ UInit /\ ZInit

FairQueue == InitQueueFair /\ [][QNext]_vars /\ WF_vars(QReadWake)

UNext ==
    \/ connection_made
    \/ UsrpTxTop
    \/ UsrpTxPttWoken
    \/ UsrpTxDataWoken
    \/ UZelloStreamStart
    \/ UZelloStreamStop
    \/ \E len \in PcmSizes : UZelloAudio(len)

InitUsrp == QInit /\ UInit /\ ZInit

SpecUsrp == InitUsrp /\ [][UNext]_vars

\* One step of USRPController.run_tx
UsrpTxStep == UsrpTxTop \/ UsrpTxPttWoken \/ UsrpTxDataWoken

\* The same with the event loop running every task that is ready, run_tx
\* and the creation of the datagram endpoint
InitUsrpFair == QInit /\ UInit /\ ZInit

FairUsrp ==
    /\ InitUsrpFair
    /\ [][UNext]_vars
    /\ WF_vars(UsrpTxStep)
    /\ WF_vars(connection_made)

\* The Zello session and the USRP ingress
Next ==
    \/ RxConnect
    \/ RxAttach
    \/ RxAuthFails
    \/ RxConnectFail
    \/ \E r \in pending, refresh \in RefreshChoices : RxSuccess(r, refresh)
    \/ \E r \in pending, err \in {"woodpecker prohibited", "empty message"} :
          RxRateLimited(r, err)
    \/ \E r \in pending : RxChannelNotReady(r)
    \/ RxKicked
    \/ RxErrorOrClose
    \/ \E start \in BOOLEAN : RxStreamStartStop(start)
    \/ \E online \in BOOLEAN : RxChannelStatus(online)
    \/ RxCleanup
    \/ TxTop
    \/ TxRead
    \/ TxReadTimeout
    \/ TxStartOk
    \/ TxStartTimeout
    \/ monitor
    \/ datagram_received_unkey
    \/ \E len \in VoiceSizes : datagram_received(len)
    \/ UsrpWriteTask
    \/ Tick

Init == QInit /\ UInit /\ ZInit

Spec == Init /\ [][Next]_vars

\* The run_tx task, wherever it stands
TxStep == TxTop \/ TxRead \/ TxReadTimeout \/ TxStartOk \/ TxStartTimeout

\* The event loop runs every task that is ready, and time passes: weak
\* fairness of the run_tx task, of run_rx's own clean-up, of monitor and
\* of the write tasks, and of the clock.  Nothing is assumed of the server,
\* of the network or of the radio side.
Fairness ==
    /\ WF_vars(TxStep)
    /\ WF_vars(RxAttach)
    /\ WF_vars(RxCleanup)
    /\ WF_vars(monitor)
    /\ WF_vars(UsrpWriteTask)
    /\ WF_vars(Tick)

InitFair == QInit /\ UInit /\ ZInit

FairSpec == InitFair /\ [][Next]_vars /\ Fairness

\* The session over a longer time, long enough for start_tx()'s timeout
\* and retry window and for run_rx's sleep between connections, with a
\* server that sends no rate-limit error, no on_stream_start and no
\* refresh_token
NextLong ==
    \/ RxConnect
    \/ RxAttach
    \/ RxAuthFails
    \/ RxConnectFail
    \/ \E r \in pending : RxSuccess(r, "none")
    \/ \E r \in pending : RxChannelNotReady(r)
    \/ RxKicked
    \/ RxErrorOrClose
    \/ \E online \in BOOLEAN : RxChannelStatus(online)
    \/ RxCleanup
    \/ TxTop
    \/ TxRead
    \/ TxReadTimeout
    \/ TxStartOk
    \/ TxStartTimeout
    \/ monitor
    \/ datagram_received_unkey
    \/ \E len \in VoiceSizes : datagram_received(len)
    \/ UsrpWriteTask
    \/ TickLong

InitLong == QInit /\ UInit /\ ZInit

FairLong ==
    /\ InitLong
    /\ [][NextLong]_vars
    /\ WF_vars(TxStep)
    /\ WF_vars(RxAttach)
    /\ WF_vars(RxCleanup)
    /\ WF_vars(monitor)
    /\ WF_vars(UsrpWriteTask)
    /\ WF_vars(TickLong)
    /\ WF_vars(RxConnect \/ RxConnectFail)

\* The same with the PCM received while the session cannot transmit told
\* apart from the rest
NextDrop ==
    \/ Next
    \/ \E len \in VoiceSizes : datagram_received_late(len)

InitDrop == QInit /\ UInit /\ ZInit

SpecDrop == InitDrop /\ [][NextDrop]_vars

\* The same with an Opus encoder that can raise
NextCodec ==
    \/ Next
    \/ TxEncodeFails

InitCodec == QInit /\ UInit /\ ZInit

SpecCodec == InitCodec /\ [][NextCodec]_vars

(***************************************************************************)
(* The rate-limit handler of run_rx on its own, on a finer clock.  The     *)
(* session is logged in, has had one stream and has a stop_stream and a    *)
(* start_stream that the server has not answered yet; the server answers   *)
(* them with 'woodpecker prohibited' or 'empty message' whenever it likes. *)
(* The other tasks are left out: none of them assigns a rate-limit window. *)
(***************************************************************************)
ZInitBackoff ==
    /\ now = 2000
    /\ usrp_ptt = TRUE
    /\ zello_ptt = FALSE
    /\ uz = NewStream
    /\ uz_pending = <<>>
    /\ zc = [ZelloNew EXCEPT !.ws = TRUE, !.seq = 4, !.token_expiry = AUTH_TOKEN_EXPIRY,
                             !.logged_in = TRUE, !.pkt_id = 1, !.ptt_down_at = 0,
                             !.channel_ready = TRUE, !.last_login_at = 0]
    /\ ws_closed = FALSE
    /\ pending = {[cmd |-> "stop_stream", seq |-> 2],
                  [cmd |-> "start_stream", seq |-> 3]}
    /\ rx_pc = "loop"
    /\ rx_wake = 0
    /\ is_authorized = TRUE
    /\ tx_pc = "start_wait"
    /\ sending = FALSE
    /\ tx_now = None
    /\ tx_timer = 4000
    /\ mon_wake = 2000
    /\ ws_out = Frame("start_stream", 3, None, None)
    /\ h = [sids |-> {41}, success |-> TRUE, auth_ok |-> TRUE, online |-> TRUE,
            logins |-> 1, last_sid |-> 41, last_pkt |-> 0, stopped |-> {41},
            start_seq |-> 3]

\* Time passes between two messages of the server
TickBackoff ==
    /\ now + BackoffTickStep <= MaxTimeBackoff
    /\ now' = now + BackoffTickStep
    /\ ws_out' = NoFrame
    /\ UNCHANGED <<usrp_ptt, zello_ptt, uz, uz_pending, zc, ws_closed, pending,
                   rx_pc, rx_wake, is_authorized, tx_pc, sending, tx_now,
                   tx_timer, mon_wake, h, qvars, uvars>>

NextBackoff ==
    \/ \E r \in pending, err \in {"woodpecker prohibited", "empty message"} :
          RxRateLimited(r, err)
    \/ TickBackoff

InitBackoff == QInit /\ UInit /\ ZInitBackoff

SpecBackoff == InitBackoff /\ [][NextBackoff]_vars

(***************************************************************************)
(* The same session with run_tx, monitor and the USRP ingress running, for *)
(* up to MaxSeqStop commands: the server answers the outstanding requests  *)
(* in any order, with success or with a rate-limit error.  The connection  *)
(* stays up.                                                               *)
(***************************************************************************)
TickStop == TickTo(MaxTimeStop)

NextStop ==
    \/ \E r \in pending : RxSuccess(r, "none")
    \/ \E r \in pending, err \in {"woodpecker prohibited", "empty message"} :
          RxRateLimitedUpTo(MaxSeqStop, r, err)
    \/ TxTopUpTo(MaxSeqStop)
    \/ TxReadUpTo(MaxSeqStop)
    \/ TxReadTimeoutUpTo(MaxSeqStop)
    \/ TxStartOk
    \/ TxStartTimeout
    \/ monitorUpTo(MaxSeqStop)
    \/ datagram_received_unkey
    \/ \E len \in VoiceSizes : datagram_received(len)
    \/ UsrpWriteTask
    \/ TickStop

InitStop == QInit /\ UInit /\ ZInitBackoff

SpecStop == InitStop /\ [][NextStop]_vars

(***************************************************************************)
(* Reauthentication on an idle session: monitor, the idle loop of run_tx,  *)
(* the clock, and a server that answers a logon with success, with or      *)
(* without a refresh token, or not at all.  The session is logged in, with *)
(* or without a private key, and holds a refresh token whose exp claim is  *)
(* AUTH_TOKEN_EXPIRY_THRESHOLD away.                                        *)
(***************************************************************************)
ZInitAuth ==
    /\ now = 0
    /\ usrp_ptt = FALSE
    /\ zello_ptt = FALSE
    /\ uz = NewStream
    /\ uz_pending = <<>>
    /\ \E key \in BOOLEAN :
          zc = [ZelloNew EXCEPT !.ws = TRUE, !.seq = 1,
                                !.token_expiry = AUTH_TOKEN_EXPIRY_THRESHOLD,
                                !.refresh_token = TRUE, !.logged_in = TRUE,
                                !.channel_ready = TRUE, !.last_login_at = 0,
                                !.private_key = key]
    /\ ws_closed = FALSE
    /\ pending = {}
    /\ rx_pc = "loop"
    /\ rx_wake = 0
    /\ is_authorized = TRUE
    /\ tx_pc = "top"
    /\ sending = FALSE
    /\ tx_now = None
    /\ tx_timer = None
    /\ mon_wake = 0
    /\ ws_out = NoFrame
    /\ h = [HistoryNew EXCEPT !.success = TRUE, !.auth_ok = TRUE,
                              !.online = TRUE, !.logins = 1]

TickAuth == TickTo(MaxTimeAuth)

NextAuth ==
    \/ monitorUpTo(MaxSeqAuth)
    \/ TxTop
    \/ \E r \in pending, refresh \in RefreshChoices : RxSuccess(r, refresh)
    \/ TickAuth

InitAuth == QInit /\ UInit /\ ZInitAuth

SpecAuth == InitAuth /\ [][NextAuth]_vars

(***************************************************************************)
(* The USRP ingress on its own: datagrams of any length and ptt field, and *)
(* the write tasks they create.                                            *)
(***************************************************************************)
\* Values of the ptt field of the datagrams received
PttFields == {0, 1, 2}

\* Lengths of the datagrams received: short of a header, a header alone, a
\* header with 160 and with 320 bytes of PCM
DatagramSizes == {16, USRP_HEADER_SIZE, USRP_HEADER_SIZE + 160, USRP_FRAME_SIZE}

IngressDatagram(ptt, len) ==
    /\ udp_in.n < MaxDatagrams
    /\ DatagramEffect(ptt, len, udp_in.n)
    /\ udp_in' = [n |-> udp_in.n + 1, ptt |-> ptt, len |-> len]
    /\ UNCHANGED <<now, zello_ptt, uz, zc, ws_closed, pending,
                   rx_pc, rx_wake, is_authorized, tx_pc, sending, tx_now,
                   tx_timer, mon_wake, ws_out, h, qvars,
                   zu, zu_writes, transport, tx_seq, utx_pc, udp_out,
                   h_built, h_last_seq, h_prev_seq, gain_call>>

NextIngress ==
    \/ \E ptt \in PttFields, len \in DatagramSizes : IngressDatagram(ptt, len)
    \/ UsrpWriteTask

InitIngress == QInit /\ UInit /\ ZInit

SpecIngress == InitIngress /\ [][NextIngress]_vars

(***************************************************************************)
(* apply_gain (usrp.py).  A buffer is a sequence of 16-bit words, the      *)
(* pairs of bytes that struct reads as 'h'; a gain and a product are       *)
(* rationals [n, d] with d > 0.                                            *)
(***************************************************************************)
INT16_MIN == -32768
INT16_MAX == 32767
WORD == 65536

\* struct.unpack('h'): the two's-complement value of a word
Unpack16(w) == IF w > INT16_MAX THEN w - WORD ELSE w

\* struct.pack('h') accepts the values of a short only, else struct.error
Packs(v) == INT16_MIN <= v /\ v <= INT16_MAX

\* struct.pack('h'): the word of a short
Pack16(v) == IF v < 0 THEN v + WORD ELSE v

Rat(i) == [n |-> i, d |-> 1]

\* gain * b
RatTimes(g, b) == [n |-> g.n * b, d |-> g.d]

RatLess(a, b) == a.n * b.d < b.n * a.d

\* min(a, b) and max(a, b) of Python: the first argument unless the second
\* is smaller (larger)
PyMin(a, b) == IF RatLess(b, a) THEN b ELSE a

PyMax(a, b) == IF RatLess(a, b) THEN b ELSE a

\* int(x): truncation towards zero
PyInt(a) == IF a.n >= 0 THEN a.n \div a.d ELSE 0 - ((0 - a.n) \div a.d)

clamp_shortMut(sh) == PyInt(sh)

\* clamp_short(sh): int(max(-32768, min(32767, sh)))
clamp_short(sh) == PyInt(PyMax(Rat(INT16_MIN), PyMin(Rat(INT16_MAX), sh)))

\* apply_gain(buf, gain): the samples handed to struct.pack
GainSamples(buf, gain) ==
    [i \in 1..Len(buf) |-> clamp_short(RatTimes(gain, Unpack16(buf[i])))]

\* apply_gain(buf, gain) returns (struct.pack does not raise)
GainReturns(buf, gain) ==
    \A i \in 1..Len(buf) : Packs(GainSamples(buf, gain)[i])

\* apply_gain(buf, gain): the buffer returned
apply_gain(buf, gain) ==
    [i \in 1..Len(buf) |-> Pack16(GainSamples(buf, gain)[i])]

\* Samples of the buffers: the ends of the range, their neighbours, the
\* middle of each half and the values around zero
Samples == {INT16_MIN, INT16_MIN + 1, -16384, -1, 0, 1, 16384, INT16_MAX}

\* Linear gains: 0, 1/10 (-10 dB), 1/4, 1/2, 1 (0 dB), 3/2, 2, 10 (10 dB)
\* and 1000 (30 dB)
Gains ==
    {[n |-> 0, d |-> 1], [n |-> 1, d |-> 10], [n |-> 1, d |-> 4],
     [n |-> 1, d |-> 2], [n |-> 1, d |-> 1], [n |-> 3, d |-> 2],
     [n |-> 2, d |-> 1], [n |-> 10, d |-> 1], [n |-> 1000, d |-> 1]}

\* Buffers of at most MaxGainSamples samples
GainBufs ==
    UNION {[1..k -> {Pack16(s) : s \in Samples}] : k \in 0..MaxGainSamples}

\* One call of apply_gain, from the arguments to the return or the raise
ApplyGainCall ==
    /\ gain_call.status = "called"
    /\ gain_call' =
          IF GainReturns(gain_call.buf, gain_call.gain)
          THEN [gain_call EXCEPT !.status = "returned",
                                 !.out = apply_gain(gain_call.buf, gain_call.gain)]
          ELSE [gain_call EXCEPT !.status = "raised"]
    /\ UNCHANGED <<qvars, zello_ptt, zvars, zu, zu_writes, transport, tx_seq,
                   utx_pc, udp_out, h_built, h_last_seq, h_prev_seq, udp_in>>

NextGain == ApplyGainCall

InitGain ==
    /\ QInit /\ UsrpNew /\ ZInit
    /\ \E buf \in GainBufs, gain \in Gains :
          gain_call = [buf |-> buf, gain |-> gain, status |-> "called",
                       out |-> <<>>]

SpecGain == InitGain /\ [][NextGain]_vars

(***************************************************************************)
(* Properties.                                                             *)
(***************************************************************************)

\* C1 (Spec): a media frame is written to the WebSocket only with a
\* stream_id that the server has sent in answer to a start_stream; none is
\* written while stream_id is None.
C1_MediaOnlyWithStreamId ==
    ws_out.cmd = "media" => ws_out.sid # None /\ ws_out.sid \in h.sids

\* A media frame has been sent on the stream the server assigned.
C1_Witness ==
    /\ ws_out.cmd = "media"
    /\ ws_out.sid = zc.stream_id
    /\ zc.txing /\ sending

\* C2 (Spec): whenever start_stream is written to the WebSocket, zello_ptt
\* is clear.
C2_NoStartWhileZelloPtt ==
    ws_out.cmd = "start_stream" => ~zello_ptt

\* The TX task holds PCM it could start a stream with, everything else
\* allowing it, while zello_ptt is set.
C2_Witness ==
    /\ zello_ptt
    /\ tx_pc = "read"
    /\ BufLen(StreamReadData(uz, READ_SIZE)) >= MIN_PCM
    /\ ~sending
    /\ zc.logged_in /\ zc.channel_ready /\ ~zc.auth_in_progress
    /\ ~InCooldown(zc, tx_now)
    /\ ~WsDown(zc)

\* C3 (Spec), as stated: no start_stream is written while the window set
\* by 'woodpecker prohibited' is running.
C3_NoStartInWoodpeckerWindow ==
    ws_out.cmd = "start_stream" => ~Running(zc.woodpecker_until, now)

\* C4 (Spec), amended: logged_in is true only when a message carrying
\* success has been received on this connection, and from that message on
\* for as long as the message loop runs; on_channel_status plays no part.
C4_LoggedInIffSuccess ==
    /\ zc.logged_in => h.success
    /\ h.success /\ rx_pc = "loop" => zc.logged_in

\* logged_in is true on a connection that has seen no on_channel_status
\* online.
C4_Witness ==
    /\ zc.logged_in
    /\ h.success
    /\ ~h.online

\* C4 as stated: logged_in only after a success for the auth seq and an
\* on_channel_status online.
C4_Original ==
    zc.logged_in => h.auth_ok /\ h.online

\* C5 (Spec): 'Logged in!' is logged at most once per connection, exactly
\* once when logged_in has become true; logged_in goes from true to false
\* only in a step that leaves the message loop behind.
C5_LoggedInEdges ==
    [][/\ h'.logins <= 1
       /\ zc'.logged_in => h'.logins = 1
       /\ ~zc.logged_in /\ zc'.logged_in => h.logins = 0 /\ rx_pc' = "loop"
       /\ zc.logged_in /\ ~zc'.logged_in => rx_pc' \in {"closing", "sleep"}]_vars

\* A connection that logged in once has been reset and left.
C5_Witness ==
    /\ h.logins = 1
    /\ ~zc.logged_in
    /\ rx_pc = "sleep"

\* C6 (Spec), as stated: at most one logon awaits its answer.
C6_OneLogonOutstanding ==
    Cardinality({r \in pending : r.cmd = "logon"}) <= 1

\* C7 (SpecUsrp), amended: an unkey datagram is the 32-byte header alone; a
\* keyed datagram is the header and the 1..320 bytes that read(320)
\* returned.
C7_DatagramSizes ==
    udp_out # NoDatagram =>
        /\ udp_out.ptt = 0 => udp_out.len = 32
        /\ udp_out.ptt = 1 =>
              /\ udp_out.len = 32 + BufLen(udp_out.pcm)
              /\ 33 <= udp_out.len /\ udp_out.len <= 352

\* A keyed datagram shorter than 352 bytes has been emitted.
C7_Witness ==
    /\ udp_out # NoDatagram
    /\ udp_out.ptt = 1
    /\ udp_out.len < 352

\* C7 as stated: every datagram is 352 bytes.
C7_Original ==
    udp_out # NoDatagram => udp_out.len = 352

\* C8 (SpecUsrp), amended: seq is strictly increasing from one emitted
\* datagram to the next, and the first header built carries seq 1.
C8_SeqIncreasingFromOne ==
    /\ h_prev_seq # None => h_last_seq > h_prev_seq
    /\ h_built # None => h_built = 1

\* Two datagrams have been emitted.
C8_Witness ==
    /\ h_built # None
    /\ h_prev_seq # None
    /\ h_last_seq # None

\* C8 as stated: strictly increasing, the first header built carrying 0.
C8_Original ==
    /\ h_prev_seq # None => h_last_seq > h_prev_seq
    /\ h_built # None => h_built = 0

\* C9 (Spec): the media frame sent when start_tx() has just succeeded
\* carries pkt_id 0; a media frame with the stream_id of the one before
\* carries its pkt_id plus one, modulo 2^31.
C9_PktIdSequence ==
    [][ws_out'.cmd = "media" =>
          /\ tx_pc = "start_wait" => ws_out'.pkt = 0
          /\ tx_pc # "start_wait" /\ ws_out'.sid = h.last_sid =>
                ws_out'.pkt = IF h.last_pkt = 2147483647 THEN 0
                              ELSE h.last_pkt + 1]_vars

\* The second media frame of a stream has been sent.
C9_Witness ==
    /\ ws_out.cmd = "media"
    /\ ws_out.pkt = 1
    /\ ws_out.sid \in h.sids

\* C10 (SpecQueue): read(n) returns between 1 and n bytes, and waits only
\* while the buffer is empty.
C10_ReadNeverEmpty ==
    /\ q_pc = "idle" /\ q_ret # NoRead =>
          1 <= BufLen(q_ret) /\ BufLen(q_ret) <= q_n
    /\ q_pc = "waiting" => BufLen(q.buf) = 0

\* A read that had to wait has returned and left bytes behind.
C10_Witness ==
    /\ q_pc = "idle"
    /\ q_ret # NoRead
    /\ q_waited
    /\ BufLen(q.buf) > 0

\* C11 (SpecQueue): the bytes returned by the reads so far, followed by the
\* bytes still buffered, are the bytes written so far in write order; and
\* what a read leaves behind is the front of what the next read returns.
C11_BytesConserved ==
    /\ Norm(q_out \o q.buf) = Norm(q_in)
    /\ BufLen(q_out) + BufLen(q.buf) = BufLen(q_in)

\* A read has returned part of a write and left the rest of it, with a
\* later write behind it, in the buffer.
C11_Witness ==
    /\ q_out # <<>>
    /\ Len(q.buf) >= 2
    /\ q_out[Len(q_out)][1] = q.buf[1][1]

\* C12 (Spec), as stated: whenever a media frame is written to the
\* WebSocket, usrp_ptt is set and zello_ptt is clear.
C12_MediaOnlyWhileKeyed ==
    ws_out.cmd = "media" => usrp_ptt /\ ~zello_ptt

\* The TX task waits in read(640) and no audio is buffered or on its way
TxStarved ==
    /\ tx_pc = "read"
    /\ ~StreamReturns(StreamReadData(uz, READ_SIZE))
    /\ uz_pending = <<>>

\* C13 (FairSpec), as stated: when zello_ptt is set while a stream started
\* from USRP is active, a stop_stream is eventually sent, for as long as
\* USRP stays keyed, audio keeps arriving and the WebSocket stays open (and
\* the clock is short of the end of the model).
C13_StopOnZelloStart ==
    (zello_ptt /\ usrp_ptt /\ zc.txing /\ StreamIdKnown(zc.stream_id)
        /\ ~WsDown(zc))
    ~> (\/ ws_out.cmd = "stop_stream"
        \/ ~zello_ptt
        \/ ~usrp_ptt
        \/ WsDown(zc)
        \/ TxStarved
        \/ now >= MaxTime)

\* A stream started from USRP is active on an open WebSocket
StreamActive == zc.txing /\ StreamIdKnown(zc.stream_id) /\ ~WsDown(zc)

\* wait_for(read(640), timeout=1) has run out with nothing to read
ReadTimedOut ==
    /\ tx_pc = "read"
    /\ now >= tx_now + READ_TIMEOUT
    /\ ~StreamReturns(StreamReadData(uz, READ_SIZE))

\* What the TX task waits for lies beyond the end of the model: a timeout
\* or a backoff window that ends after the clock has stopped, or a command
\* or media frame beyond MaxSeq or MaxPktId
TxBeyond(limit) ==
    \/ tx_pc = "read" /\ tx_now + READ_TIMEOUT > limit
    \/ tx_pc = "start_wait" /\ tx_timer > limit
    \/ Running(zc.woodpecker_until, limit)
    \/ Running(zc.empty_msg_backoff_until, limit)
    \/ zc.seq >= MaxSeq
    \/ zc.pkt_id >= MaxPktId

TxBeyondModel == TxBeyond(MaxTime)

\* A stop_stream for the stream has just been sent and txing is false
StreamStopped == ws_out.cmd = "stop_stream" /\ ~zc.txing

C15_StopClearsStream ==
    ws_out.cmd = "stop_stream" =>
        ~zc.txing /\ zc.stream_id = None /\ zc.pkt_id = 0

\* C16 (SpecCodec), as stated: whatever the encoder does, the TX task keeps
\* running: it is at the top of its loop, in the read or in start_tx().
C16_TxSurvivesEncoderError ==
    tx_pc \in {"top", "read", "start_wait"}

\* The backoff set by 'channel is not ready' has run out and the channel
\* has not been reported online since
ChannelBackoffOver ==
    /\ ~zc.channel_ready
    /\ zc.channel_backoff_until # None
    /\ now >= zc.channel_backoff_until

\* C17 (FairLong), as stated: no start_stream is sent while the backoff set
\* by 'channel is not ready' is running; and once it has run out, a
\* start_stream is eventually sent, for as long as USRP stays keyed, audio
\* keeps arriving, nothing else holds the TX task back and the WebSocket
\* stays open (and the model is short of its end).
C17_RetryAfterChannelNotReady ==
    /\ [](ws_out.cmd = "start_stream" => ~Running(zc.channel_backoff_until, now))
    /\ (ChannelBackoffOver /\ usrp_ptt /\ ~WsDown(zc))
         ~> (\/ ws_out.cmd = "start_stream"
             \/ zc.channel_ready
             \/ ~usrp_ptt
             \/ zello_ptt
             \/ WsDown(zc)
             \/ ~zc.logged_in
             \/ zc.auth_in_progress
             \/ TxStarved
             \/ TxBeyond(MaxTimeLong)
             \/ now >= MaxTimeLong)

\* The state SpecBackoff starts in
BackoffStart == ZInitBackoff /\ QInit /\ UInit

\* C20 (SpecBackoff), as stated: a step that sets the woodpecker window
\* sets it to end between 3 s and 8 s from now.
C20_WoodpeckerWindowLength ==
    [][zc'.woodpecker_until # zc.woodpecker_until =>
          /\ zc'.woodpecker_until - now >= 3000
          /\ zc'.woodpecker_until - now <= 8000]_vars

\* run_rx holds no open connection: it is leaving one or sleeping
RxDisconnected == rx_pc \in {"closing", "sleep", "done"}

\* run_rx has just opened a connection and sent its logon
RxConnected == rx_pc = "auth" /\ ws_out.cmd = "logon" /\ ~ws_closed

\* C18 (FairLong): when run_rx leaves a connection, or fails to open one,
\* it resets the connection state and sleeps RECONNECT_SLEEP; and a disconnected run_rx eventually
\* opens a connection and sends logon, unless its next attempt is due
\* after the clock has stopped or MaxSeq commands have been sent.
C18_AlwaysReconnects ==
    /\ [][((rx_pc = "closing" /\ rx_pc' # "closing")
            \/ (rx_pc = "sleep" /\ rx_wake' # rx_wake))
           => (/\ rx_pc' = "sleep"
               /\ rx_wake' = now + RECONNECT_SLEEP
               /\ zc' = reset_connection_state(zc))]_vars
    /\ RxDisconnected
         ~> (\/ RxConnected
             \/ rx_pc = "sleep" /\ rx_wake > MaxTimeLong
             \/ zc.seq >= MaxSeq)

\* A connection was lost and, the sleep over, another has been opened.
C18_Witness ==
    /\ RxConnected
    /\ now >= RECONNECT_SLEEP
    /\ ws_out.seq >= 1

\* C19 (Spec), amended: while no WebSocket is held and run_rx is not
\* inside a connection attempt (between authenticate() and either the
\* assignment of self._ws or the finally clause), logged_in, txing,
\* channel_ready and auth_in_progress are false, stream_id is None and
\* zello_ptt is clear.
C19_NothingSurvivesDisconnect ==
    ~zc.ws /\ rx_pc \notin {"auth", "closing"} =>
        /\ ~zc.logged_in
        /\ zc.stream_id = None
        /\ ~zc.txing
        /\ ~zc.channel_ready
        /\ ~zc.auth_in_progress
        /\ ~zello_ptt

\* A connection that had logged in has ended while the TX task was
\* waiting in start_tx() for its stream_id.
C19_Witness ==
    /\ ~zc.ws
    /\ h.logins = 1
    /\ rx_pc = "sleep"
    /\ tx_pc = "start_wait"

\* C19 as stated: the same in every state where no WebSocket is held.
C19_Original ==
    ~zc.ws =>
        /\ ~zc.logged_in
        /\ zc.stream_id = None
        /\ ~zc.txing
        /\ ~zc.channel_ready
        /\ ~zc.auth_in_progress
        /\ ~zello_ptt

\* C21 (SpecBackoff): a step that sets the empty-message window sets it
\* to end 1 s from now on a first error and, on an error inside a running
\* window, no less than the starting 1 s and no more than 8 s from now.
C21_EmptyMessageBackoffGrows ==
    [][zc'.empty_msg_backoff_until # zc.empty_msg_backoff_until =>
          IF Running(zc.empty_msg_backoff_until, now)
          THEN /\ zc'.empty_msg_backoff_until - now >= 1000 * EMPTY_MSG_BACKOFF
               /\ zc'.empty_msg_backoff_until - now <= 1000 * BACKOFF_CAP
          ELSE zc'.empty_msg_backoff_until - now = 1000 * EMPTY_MSG_BACKOFF]_vars

\* C22 (Spec): a logon sent on an established connection (run_rx in its
\* message loop) is sent while txing is false and the token has at most
\* AUTH_TOKEN_EXPIRY_THRESHOLD left, and leaves txing false.
C22_ReauthOnlyWhenIdle ==
    [][ws_out'.cmd = "logon" /\ rx_pc = "loop" =>
          /\ ~zc.txing
          /\ ~zc'.txing
          /\ zc.token_expiry # None
          /\ zc.token_expiry - now <= AUTH_TOKEN_EXPIRY_THRESHOLD]_vars

\* The monitor has sent a logon on a connection that was logged in and had
\* carried a stream.
C22_Witness ==
    /\ ws_out.cmd = "logon"
    /\ rx_pc = "loop"
    /\ zc.logged_in
    /\ h.sids # {}
    /\ ~zc.txing

\* The state SpecAuth starts in, for a deployment with a private key
AuthStart == ZInitAuth /\ QInit /\ UInit /\ zc.private_key

\* No logon sent since the session logged in has been answered
LogonsUnanswered ==
    \A s \in 1..(zc.seq - 1) : [cmd |-> "logon", seq |-> s] \in pending

\* C23 (SpecAuth): while none of the logons sent by monitor has been
\* answered, auth_in_progress is not set later than AUTH_WATCHDOG_SEC and
\* two monitor periods after the first of them, which is sent at time 0.
C23_AuthWatchdogClears ==
    zc.auth_in_progress /\ LogonsUnanswered =>
        now <= AUTH_WATCHDOG_SEC + 2 * MONITOR_SLEEP

\* C24 (FairUsrp): from a start with no Zello traffic, a ptt=0 datagram
\* leaves the socket, unless Zello traffic arrives first.
C24_ColdStartKeepalive ==
    (utx_pc = "top" /\ tx_seq = 0 /\ ~zello_ptt /\ zu_writes = 0)
        ~> (\/ udp_out # NoDatagram /\ udp_out.ptt = 0
            \/ zello_ptt
            \/ zu_writes > 0)

\* C25 (FairUsrp): when zello_ptt is clear while run_tx waits in read()
\* with the endpoint in place and nothing buffered, a ptt=0 datagram is
\* emitted, unless Zello keys again or more audio arrives first.
C25_UnkeyAfterStreamStop ==
    (transport /\ ~zello_ptt /\ zu.buf = <<>> /\ utx_pc = "wait_data")
        ~> (\/ udp_out # NoDatagram /\ udp_out.ptt = 0
            \/ zello_ptt
            \/ zu.buf # <<>>)

\* run_tx can build no more headers within the bound, or has ended
UsrpTxBeyond == tx_seq >= MaxTxSeq \/ utx_pc = "dead"

RECURSIVE Flatten(_)
Flatten(s) == IF s = <<>> THEN <<>> ELSE Head(s) \o Flatten(Tail(s))

\* The runs of b belong to datagrams in arrival order
InArrivalOrder(b) == \A i \in 1..(Len(b) - 1) : b[i][1] < b[i + 1][1]

\* C27 (SpecIngress), amended: a datagram shorter than the header changes
\* nothing; one whose ptt field is not 1 clears usrp_ptt and enqueues
\* nothing; one whose ptt field is 1 sets usrp_ptt and enqueues the bytes
\* after the header; and the payloads reach usrp_to_zello in arrival
\* order.
C27_DatagramDecoding ==
    /\ [][udp_in'.n # udp_in.n =>
            IF udp_in'.len < USRP_HEADER_SIZE
            THEN usrp_ptt' = usrp_ptt /\ uz_pending' = uz_pending /\ uz' = uz
            ELSE IF udp_in'.ptt # 1
            THEN ~usrp_ptt' /\ uz_pending' = uz_pending /\ uz' = uz
            ELSE /\ usrp_ptt'
                 /\ uz' = uz
                 /\ uz_pending' =
                       Append(uz_pending,
                              Bytes(udp_in.n, udp_in'.len - USRP_HEADER_SIZE))]_vars
    /\ [](InArrivalOrder(uz.buf \o Flatten(uz_pending)))

\* Two keyed datagrams have had their payloads written, in order, and a
\* datagram with ptt 0 has cleared usrp_ptt since.
C27_Witness ==
    /\ Len(uz.buf) >= 2
    /\ uz_pending = <<>>
    /\ udp_in.ptt = 0
    /\ udp_in.len >= USRP_HEADER_SIZE
    /\ ~usrp_ptt

\* C27 as stated: ptt 0 clears and enqueues nothing, any other ptt sets
\* usrp_ptt and enqueues the bytes after the header.
C27_Original ==
    [][udp_in'.n # udp_in.n =>
          IF udp_in'.ptt = 0
          THEN ~usrp_ptt' /\ uz_pending' = uz_pending /\ uz' = uz
          ELSE /\ usrp_ptt'
               /\ uz' = uz
               /\ uz_pending' =
                     Append(uz_pending,
                            Bytes(udp_in.n, udp_in'.len - USRP_HEADER_SIZE))]_vars

\* Some of these bytes were received while the session could not transmit
LatePcm(b) == \E i \in 1..Len(b) : b[i][1] = 1

\* C28 (SpecDrop): PCM that run_tx reads and sends in a media frame, or
\* opens a stream for, was not received while the session could not
\* transmit.
C28_OutageAudioDropped ==
    [][tx_pc = "read" /\ ws_out'.cmd \in {"media", "start_stream"} =>
          ~LatePcm(StreamReadData(uz, READ_SIZE))]_vars



(***************************************************************************)
(* The preconditions of start_stream.                                      *)
(***************************************************************************)
\* start_tx() has just sent start_stream
StartSent == ws_out.cmd = "start_stream"

C30_LogonPrefersRefreshToken ==
    [][ws_out'.cmd = "logon" =>
          /\ ws_out'.token \in {"refresh_token", "auth_token"}
          /\ zc.refresh_token => ws_out'.token = "refresh_token"
          /\ ws_out'.token = "auth_token" => ~zc.refresh_token
          /\ ~zc'.refresh_token]_vars

\* A logon carrying the refresh token of an earlier success has been sent
C30_Witness ==
    /\ ws_out.cmd = "logon"
    /\ ws_out.token = "refresh_token"
    /\ ws_out.seq > 0
    /\ ~zc.refresh_token


(***************************************************************************)
(* Gain.                                                                   *)
(***************************************************************************)
\* The sample v is the product g * s brought into the range of a short:
\* the nearer end of the range when the product is outside it, else the
\* product with its fraction dropped
Saturated(g, s, v) ==
    LET p == g.n * s
    IN  IF p >= INT16_MAX * g.d THEN v = INT16_MAX
        ELSE IF p <= INT16_MIN * g.d THEN v = INT16_MIN
        ELSE /\ v * p >= 0
             /\ IF p >= 0 THEN v * g.d <= p /\ p < (v + 1) * g.d
                          ELSE v * g.d >= p /\ p > (v - 1) * g.d

\* C31 (SpecGain): apply_gain returns, for every buffer of int16 samples
\* and every gain g >= 0, a buffer of as many samples, each the product
\* g * s saturated to [-32768, 32767]; it never raises and never wraps.
C31_GainSaturates ==
    gain_call.status # "called" =>
        /\ gain_call.status = "returned"
        /\ Len(gain_call.out) = Len(gain_call.buf)
        /\ \A i \in 1..Len(gain_call.buf) :
              /\ gain_call.out[i] \in 0..(WORD - 1)
              /\ Saturated(gain_call.gain, Unpack16(gain_call.buf[i]),
                           Unpack16(gain_call.out[i]))

\* apply_gain has returned a buffer with a sample saturated at each end of
\* the range, from samples that were not at the ends
C31_Witness ==
    /\ gain_call.status = "returned"
    /\ Len(gain_call.out) = MaxGainSamples
    /\ \E i, j \in 1..Len(gain_call.out) :
          /\ Unpack16(gain_call.out[i]) = INT16_MAX
          /\ Unpack16(gain_call.buf[i]) < INT16_MAX
          /\ Unpack16(gain_call.out[j]) = INT16_MIN
          /\ Unpack16(gain_call.buf[j]) > INT16_MIN


(***************************************************************************)
(* Wake-ups of the reader of an AsyncByteStream.                           *)
(***************************************************************************)
\* C32 (FairQueue): the reader waits in read() only while the buffer is
\* empty and the event clear; every write made while it waits wakes it; a
\* woken reader runs again; and a read in progress with bytes in the buffer
\* returns.
C32_NoLostWakeup ==
    /\ [](q_pc = "waiting" => BufLen(q.buf) = 0 /\ ~q.avail)
    /\ [][q_pc = "waiting" /\ q_writes' # q_writes => q_pc' = "woken"]_vars
    /\ (q_pc = "woken") ~> (q_pc # "woken")
    /\ (q_pc # "idle" /\ BufLen(q.buf) > 0) ~> (q_pc = "idle")

\* The reader found the buffer empty, waited, and a write of some bytes
\* has woken it
C32_Witness ==
    /\ q_pc = "woken"
    /\ q_waited
    /\ BufLen(q.buf) > 0
    /\ q_ret = NoRead


(***************************************************************************)
(* Streams that have been stopped.                                         *)
(***************************************************************************)
\* C33 (SpecStop), as stated: no media frame carries a stream_id for which
\* stop_stream has been sent.
C33_NoMediaAfterStop ==
    ws_out.cmd = "media" => ws_out.sid \notin h.stopped

\* C34 (SpecStop), as stated: stop_stream is sent at most once for a
\* stream_id.
C34_OneStopPerStream ==
    [][ws_out'.cmd = "stop_stream" => ws_out'.sid \notin h.stopped]_vars


(***************************************************************************)
(* The stream_id of a stream.                                              *)
(***************************************************************************)
\* C35 (SpecStop), as stated: the media frames of a stream carry the
\* stream_id of the success that answers the most recent start_stream.
C35_StreamIdOfLatestStart ==
    ws_out.cmd = "media" => ws_out.sid = SidFor(h.start_seq)


(***************************************************************************)
(* The order of the server's first messages.                               *)
(***************************************************************************)
\* This step of run_rx handles an on_channel_status 'online' or an
\* on_stream_start received before any success on this connection
CommandBeforeSuccess ==
    /\ rx_pc = "loop" /\ ~ws_closed
    /\ ~is_authorized /\ ~is_authorized'
    /\ \/ ~h.online /\ h'.online
       \/ ~zello_ptt /\ zello_ptt'

\* C36 (Spec), as stated: when a command message is received on a fresh
\* connection before the success that answers the logon, run_rx stays in
\* the message loop with the connection open.
C36_LoginAnyMessageOrder ==
    [][CommandBeforeSuccess => rx_pc' = "loop" /\ ~ws_closed']_vars

====
